---------------------------- MODULE Spec2Model ----------------------------
(***************************************************************************)
(* HueDesk: solid / gradient wallpaper generator.                          *)
(*                                                                         *)
(* The model covers the colour parser and the raster synthesiser of        *)
(* image_generator.py and the two front ends, huedesk_cli.py (one-shot)    *)
(* and huedesk_curses.py (interactive menu).                               *)
(*                                                                         *)
(* Python strings are sequences of one-character strings.  Exceptions are  *)
(* values: every modelled function returns a record whose field exc names  *)
(* the exception that left the function ("none" when it returned).         *)
(***************************************************************************)
EXTENDS Integers, Sequences, FiniteSets, TLC

VARIABLES
    entry,          \* which entry point this run exercises
    pc,             \* "call" / "done" for a single call; "menu" / "message" / "exit" /
                    \* "crash" for the menu loop
    color,          \* the argument of parse_color
    parsed,         \* what parse_color returned or raised
    call,           \* the arguments of a direct call into the raster synthesiser
    result,         \* what that call returned, raised, saved or showed
    args,           \* the argparse namespace handed to main_cli
    cli,            \* what main_cli printed, saved and how it ended
    current_row,    \* main_curses: the selected menu row
    menu_values,    \* main_curses: the value shown beside each menu row
    screen          \* main_curses: what the last process_image reported and produced

vars == <<entry, pc, color, parsed, call, result, args, cli,
          current_row, menu_values, screen>>

-----------------------------------------------------------------------------
(* Bounds of the model.                                                    *)

\* Rasters of the direct calls and of the front ends are 1..MaxDim pixels a side.
MaxDim == 3
\* Colour strings hold up to MaxParts '-'-separated segments.
MaxParts == 5

-----------------------------------------------------------------------------
(* Python str helpers.                                                     *)

Digits == {"0", "1", "2", "3", "4", "5", "6", "7", "8", "9"}
HexLower == {"a", "b", "c", "d", "e", "f"}
HexUpper == {"A", "B", "C", "D", "E", "F"}
HexDigits == Digits \cup HexLower \cup HexUpper
Whitespace == {" "}

DigitVal(c) ==
    CASE c = "0" -> 0 [] c = "1" -> 1 [] c = "2" -> 2 [] c = "3" -> 3
      [] c = "4" -> 4 [] c = "5" -> 5 [] c = "6" -> 6 [] c = "7" -> 7
      [] c = "8" -> 8 [] c = "9" -> 9
      [] c \in {"a", "A"} -> 10 [] c \in {"b", "B"} -> 11
      [] c \in {"c", "C"} -> 12 [] c \in {"d", "D"} -> 13
      [] c \in {"e", "E"} -> 14 [] c \in {"f", "F"} -> 15

\* str.lower() on the characters the model uses
LowerChar(c) ==
    CASE c = "A" -> "a" [] c = "B" -> "b" [] c = "C" -> "c" [] c = "D" -> "d"
      [] c = "E" -> "e" [] c = "F" -> "f" [] c = "X" -> "x"
      [] OTHER -> c

Lower(s) == [i \in 1..Len(s) |-> LowerChar(s[i])]

\* s[i:] (1-based, i may be Len(s)+1)
Drop(s, i) == SubSeq(s, i, Len(s))

RECURSIVE Split(_, _)
\* s.split(sep) for a one-character sep: always at least one part
Split(s, sep) ==
    IF \A i \in 1..Len(s) : s[i] # sep
    THEN <<s>>
    ELSE LET k == CHOOSE i \in 1..Len(s) :
                      s[i] = sep /\ \A j \in 1..(i - 1) : s[j] # sep
         IN  <<SubSeq(s, 1, k - 1)>> \o Split(Drop(s, k + 1), sep)

RECURSIVE Join(_, _)
\* sep.join(parts)
Join(parts, sep) ==
    IF Len(parts) = 0 THEN <<>>
    ELSE IF Len(parts) = 1 THEN parts[1]
    ELSE parts[1] \o <<sep>> \o Join(Tail(parts), sep)

RECURSIVE LStrip(_, _)
\* s.lstrip(ch): every leading ch is removed
LStrip(s, ch) ==
    IF Len(s) > 0 /\ s[1] = ch THEN LStrip(Tail(s), ch) ELSE s

RECURSIVE RStripWs(_)
RStripWs(s) ==
    IF Len(s) > 0 /\ s[Len(s)] \in Whitespace
    THEN RStripWs(SubSeq(s, 1, Len(s) - 1)) ELSE s

RECURSIVE LStripWs(_)
LStripWs(s) ==
    IF Len(s) > 0 /\ s[1] \in Whitespace THEN LStripWs(Tail(s)) ELSE s

\* s.strip()
Strip(s) == RStripWs(LStripWs(s))

Contains(s, ch) == \E i \in 1..Len(s) : s[i] = ch

RECURSIVE DigitsValue(_, _, _)
\* the value of the digits of s in the given base, underscores skipped
DigitsValue(s, base, acc) ==
    IF Len(s) = 0 THEN acc
    ELSE IF s[1] = "_" THEN DigitsValue(Tail(s), base, acc)
    ELSE DigitsValue(Tail(s), base, acc * base + DigitVal(s[1]))

\* the digit part of an integer literal: digits, single underscores between them
WellFormedDigits(s, alphabet) ==
    /\ Len(s) > 0
    /\ \A i \in 1..Len(s) : s[i] \in alphabet \cup {"_"}
    /\ s[1] # "_" /\ s[Len(s)] # "_"
    /\ \A i \in 1..(Len(s) - 1) : ~(s[i] = "_" /\ s[i + 1] = "_")

Unsigned(s) == IF Len(s) > 0 /\ s[1] \in {"+", "-"} THEN Tail(s) ELSE s
Sign(s) == IF Len(s) > 0 /\ s[1] = "-" THEN -1 ELSE 1

\* int(s): surrounding whitespace, an optional sign, decimal digits
IntParse(s) ==
    LET t == Strip(s)
        d == Unsigned(t)
    IN  IF WellFormedDigits(d, Digits)
        THEN [ok |-> TRUE, val |-> Sign(t) * DigitsValue(d, 10, 0)]
        ELSE [ok |-> FALSE, val |-> 0]

\* int(s, 16): surrounding whitespace, an optional sign, an optional 0x, hex digits
HexParse(s) ==
    LET t == Strip(s)
        u == Unsigned(t)
        d == IF Len(u) >= 2 /\ u[1] = "0" /\ u[2] \in {"x", "X"}
             THEN Drop(u, 3) ELSE u
    IN  IF WellFormedDigits(d, HexDigits)
        THEN [ok |-> TRUE, val |-> Sign(t) * DigitsValue(d, 16, 0)]
        ELSE [ok |-> FALSE, val |-> 0]

-----------------------------------------------------------------------------
(* image_generator.parse_color                                             *)

Returned(v) == [exc |-> "none", msg |-> "", value |-> v]
Raised(e, m) == [exc |-> e, msg |-> m, value |-> <<>>]

\* current_color * 2: the string repeated, not each character
DoubleChars_WholeString(s) == s \o s

\* ''.join([c * 2 for c in current_color])
DoubleChars(s) == [i \in 1..(2 * Len(s)) |-> s[(i + 1) \div 2]]

\* the RGB branch of the loop body: r, g, b = map(int, current_color.split(','))
ParseRGBSegment(current_color) ==
    LET parts == Split(current_color, ",")
        ints == [i \in 1..Len(parts) |-> IntParse(parts[i])]
    IN  IF Len(parts) # 3 \/ \E i \in 1..Len(parts) : ~ints[i].ok
        THEN Raised("ParserError",
                    "Invalid RGB format. Should be three integers separated by commas.")
        ELSE IF \E i \in 1..3 : ints[i].val < 0 \/ ints[i].val > 255
        THEN Raised("ParserError",
                    "Invalid RGB format. Values must be between 0 and 255.")
        ELSE Returned(<<ints[1].val, ints[2].val, ints[3].val>>)

\* the HEX branch of the loop body
ParseHexSegment(current_color) ==
    LET six == IF Len(current_color) = 3 THEN DoubleChars(current_color)
               ELSE current_color
        r == HexParse(SubSeq(six, 1, 2))
        g == HexParse(SubSeq(six, 3, 4))
        b == HexParse(SubSeq(six, 5, 6))
    IN  IF r.ok /\ g.ok /\ b.ok
        THEN Returned(<<r.val, g.val, b.val>>)
        ELSE Raised("ParserError", "Invalid HEX format. Should be #RGB or #RRGGBB.")

\* one iteration of 'for c in color_parts'
ParseSegment(c) ==
    LET current_color == LStrip(c, "#")
    IN  IF Contains(current_color, ",") THEN ParseRGBSegment(current_color)
        ELSE IF Len(current_color) \in {3, 6} THEN ParseHexSegment(current_color)
        ELSE Raised("ParserError", "Invalid color format. Use R,G,B or #RRGGBB (#RGB).")

RECURSIVE ParseParts_Prepend(_, _)
\* the loop with colors.insert(0, ...) for colors.append(...)
ParseParts_Prepend(color_parts, colors) ==
    IF Len(color_parts) = 0 THEN Returned(colors)
    ELSE LET one == ParseSegment(color_parts[1])
         IN  IF one.exc # "none" THEN one
             ELSE ParseParts_Prepend(Tail(color_parts), <<one.value>> \o colors)

RECURSIVE ParseParts(_, _)
\* the loop: the first failing segment raises, the others append in order
ParseParts(color_parts, colors) ==
    IF Len(color_parts) = 0 THEN Returned(colors)
    ELSE LET one == ParseSegment(color_parts[1])
         IN  IF one.exc # "none" THEN one
             ELSE ParseParts(Tail(color_parts), Append(colors, one.value))

\* parse_color without the check of len(color_parts)
parse_color_NoCountCheck(c) == ParseParts(Split(c, "-"), <<>>)

parse_color(c) ==
    LET color_parts == Split(c, "-")
    IN  IF ~(1 <= Len(color_parts) /\ Len(color_parts) <= 4)
        THEN Raised("ParserError", "Invalid color format. Invalid number of colors. "
                                   \o "Should be between 1 and 4.")
        ELSE ParseParts(color_parts, <<>>)

-----------------------------------------------------------------------------
(* The raster.  An image is its size, the fill policy that wrote it and    *)
(* the colours the policy was given; Pixel gives the value putpixel wrote  *)
(* at (x, y), so that the 1920x1080 default raster is a value of the model *)
(* as much as a 3x3 one.                                                   *)

NoImage == [size |-> <<0, 0>>, policy |-> "none", colors |-> <<>>]

Image(width, height, policy, colors) ==
    [size |-> <<width, height>>, policy |-> policy, colors |-> colors]

\* the (x, y) the nested loops 'for y in range(height): for x in range(width)' visit
Pixels(width, height) == (0..(width - 1)) \X (0..(height - 1))

\* int(q) of the rational n / d, d > 0: truncation toward zero
Trunc(n, d) == IF n >= 0 THEN n \div d ELSE -((-n) \div d)

\* a + num * (b - a): the factor num / den taken as num
Lerp_Unscaled(a, b, num, den) == a + num * (b - a)

\* int(a + (num / den) * (b - a)), den > 0.  The double result and the exact
\* rational one truncate alike for every a, b in 0..255 when num is 0 or den
\* (the factor is exactly 0.0 or 1.0) and for every 0 <= num <= den <= 8.
Lerp(a, b, num, den) == Trunc(a * den + num * (b - a), den)

\* a 2-point gradient that divides by the pixel count of the diagonal, not by
\* its last index
Pixel2_CountDenominator(width, height, colors, x, y) ==
    [c \in 1..3 |-> Lerp(colors[1][c], colors[2][c], x + y, width + height)]

\* a 2-point gradient whose factor weighs x twice as much as y
Pixel2_XWeighted(width, height, colors, x, y) ==
    [c \in 1..3 |-> Lerp(colors[1][c], colors[2][c],
                         2 * x + y, 2 * width + height - 3)]

\* lines 202-206: one pixel of generate_2point_gradient
Pixel2(width, height, colors, x, y) ==
    [c \in 1..3 |-> Lerp(colors[1][c], colors[2][c], x + y, width + height - 2)]

\* a 3-point gradient whose last step blends from top to left by y
Pixel3_VerticalBlend(width, height, colors, x, y) ==
    [c \in 1..3 |->
        LET top == Lerp(colors[1][c], colors[2][c], x, width - 1)
            left == Lerp(colors[1][c], colors[3][c], y, height - 1)
        IN  Lerp(top, left, y, height - 1)]

\* lines 247-257: one pixel of generate_3point_gradient
Pixel3(width, height, colors, x, y) ==
    [c \in 1..3 |->
        LET top == Lerp(colors[1][c], colors[2][c], x, width - 1)
            left == Lerp(colors[1][c], colors[3][c], y, height - 1)
        IN  Lerp(left, top, x, width - 1)]

\* a 4-point gradient with dist_x = x / width and dist_y = y / height
Pixel4_SizeDenominator(width, height, colors, x, y) ==
    [c \in 1..3 |->
        LET top == Lerp(colors[1][c], colors[2][c], x, width)
            bottom == Lerp(colors[3][c], colors[4][c], x, width)
        IN  Lerp(top, bottom, y, height)]

\* a 4-point gradient truncated once, after the whole bilinear expression
Pixel4_SingleBilinear(width, height, colors, x, y) ==
    [c \in 1..3 |->
        Trunc(colors[1][c] * (width - 1 - x) * (height - 1 - y)
                + colors[2][c] * x * (height - 1 - y)
                + colors[3][c] * (width - 1 - x) * y
                + colors[4][c] * x * y,
              (width - 1) * (height - 1))]

\* lines 286-299: one pixel of generate_4point_gradient
Pixel4(width, height, colors, x, y) ==
    [c \in 1..3 |->
        LET top == Lerp(colors[1][c], colors[2][c], x, width - 1)
            bottom == Lerp(colors[3][c], colors[4][c], x, width - 1)
        IN  Lerp(top, bottom, y, height - 1)]

\* image.getpixel((x, y)) of a finished image
Pixel(image, x, y) ==
    LET w == image.size[1]
        h == image.size[2]
    IN  CASE image.policy = "solid" -> image.colors[1]
          [] image.policy = "black" -> <<0, 0, 0>>
          [] image.policy = "2point" -> Pixel2(w, h, image.colors, x, y)
          [] image.policy = "3point" -> Pixel3(w, h, image.colors, x, y)
          [] image.policy = "4point" -> Pixel4(w, h, image.colors, x, y)

\* str(e) of the exceptions Python itself raises
ExcText(e) == IF e = "ZeroDivisionError" THEN "division by zero" ELSE ""

\* what a generate_*point_gradient call gives back
Made(image) == [exc |-> "none", image |-> image]
Failed(e) == [exc |-> e, image |-> NoImage]

\* PIL Image.new refuses a negative side
BadSize(width, height) == width < 0 \/ height < 0

\* the loops run at least once
NonEmpty(width, height) == width >= 1 /\ height >= 1

generate_2point_gradient(width, height, colors) ==
    IF BadSize(width, height) THEN Failed("ValueError")
    ELSE IF Len(colors) < 2 THEN Failed("IndexError")
    ELSE IF NonEmpty(width, height) /\ width + height - 2 = 0
    THEN Failed("ZeroDivisionError")
    ELSE Made(Image(width, height, "2point", SubSeq(colors, 1, 2)))

generate_3point_gradient(width, height, colors) ==
    IF BadSize(width, height) THEN Failed("ValueError")
    ELSE IF Len(colors) < 3 THEN Failed("IndexError")
    ELSE IF NonEmpty(width, height) /\ (width - 1 = 0 \/ height - 1 = 0)
    THEN Failed("ZeroDivisionError")
    ELSE Made(Image(width, height, "3point", SubSeq(colors, 1, 3)))

generate_4point_gradient(width, height, colors) ==
    IF BadSize(width, height) THEN Failed("ValueError")
    ELSE IF Len(colors) < 4 THEN Failed("IndexError")
    ELSE IF NonEmpty(width, height) /\ (width - 1 = 0 \/ height - 1 = 0)
    THEN Failed("ZeroDivisionError")
    ELSE Made(Image(width, height, "4point", SubSeq(colors, 1, 4)))

-----------------------------------------------------------------------------
(* Preview scaling.                                                        *)

max_scaled_width == 1000

\* <<n, width>> of the model's inputs for which the double n * (1000 / width)
\* lies just below the integer n * 1000 / width
FloatShort == {<<531, 1062>>, <<1062, 1062>>, <<2124, 1062>>}

\* int(n * ratio), ratio = max_scaled_width / width
Scaled(n, width) ==
    LET exact == (n * max_scaled_width) \div width
    IN  IF (n * max_scaled_width) % width = 0 /\ <<n, width>> \in FloatShort
        THEN exact - 1 ELSE exact

\* lines 119-123 and 154-160: the size of the raster that is computed
OutputSize(width, height, mode) ==
    IF mode = "preview" /\ width > 1000
    THEN <<Scaled(width, width), Scaled(height, width)>>
    ELSE <<width, height>>

-----------------------------------------------------------------------------
(* create_solid_color_image and create_gradient_color_image                *)

\* what a create_* call did: the exception that left it, and the image it
\* saved to output_path or showed
Effect(e, msg, sink, image, path) ==
    [exc |-> e, msg |-> msg, sink |-> sink, image |-> image, path |-> path]

NoEffect == Effect("none", "", "none", NoImage, <<>>)

\* image.save(output_path) / image.show() / raise: the tail of both functions.
\* io_ok is the file system's answer to save.
Deliver(image, output_path, mode, io_ok) ==
    IF mode = "generate"
    THEN IF io_ok THEN Effect("none", "", "save", image, output_path)
         ELSE Effect("OSError", "", "none", NoImage, <<>>)
    ELSE IF mode = "preview" THEN Effect("none", "", "show", image, <<>>)
    ELSE Effect("ImageGeneratorError", "Invalid image processing mode.",
                "none", NoImage, <<>>)

\* Image.new('RGB', size) without the fill colour
create_solid_color_image_NoFill(width, height, c, output_path, mode, io_ok) ==
    LET size == OutputSize(width, height, mode)
    IN  IF BadSize(size[1], size[2])
        THEN Effect("ValueError", "", "none", NoImage, <<>>)
        ELSE Deliver(Image(size[1], size[2], "black", <<>>),
                     output_path, mode, io_ok)

create_solid_color_image(width, height, c, output_path, mode, io_ok) ==
    LET size == OutputSize(width, height, mode)
    IN  IF BadSize(size[1], size[2])
        THEN Effect("ValueError", "", "none", NoImage, <<>>)
        ELSE Deliver(Image(size[1], size[2], "solid", <<c>>),
                     output_path, mode, io_ok)

\* lines 161-169: the default black image and the dispatch on len(colors)
Dispatch(width, height, size, colors) ==
    LET num_colors == Len(colors)
    IN  IF num_colors = 2 THEN generate_2point_gradient(size[1], size[2], colors)
        ELSE IF num_colors = 3 THEN generate_3point_gradient(size[1], size[2], colors)
        ELSE IF num_colors = 4 THEN generate_4point_gradient(size[1], size[2], colors)
        ELSE Made(Image(width, height, "black", <<>>))

create_gradient_color_image(width, height, colors, output_path, mode, io_ok) ==
    LET size == OutputSize(width, height, mode)
        made == Dispatch(width, height, size, colors)
    IN  IF BadSize(width, height)
        THEN Effect("ValueError", "", "none", NoImage, <<>>)
        ELSE IF made.exc # "none"
        THEN Effect(made.exc, ExcText(made.exc), "none", NoImage, <<>>)
        ELSE Deliver(made.image, output_path, mode, io_ok)

-----------------------------------------------------------------------------
(* Random colours: generate_random_colors and the 'random<digits>' token   *)

\* what the process-wide generator hands out in one call: randint(1, 4) and
\* up to four colours
RandomChannels == {0, 255}
RandomPool == {<<r, r, 255 - r>> : r \in RandomChannels}
RandomDraws == [count : 1..4, colors : [1..4 -> RandomPool]]
NoDraw == [count |-> 1, colors |-> [i \in 1..4 |-> <<0, 0, 255>>]]

\* generate_random_colors(count) with an explicit count
generate_random_colors(count, draw) == SubSeq(draw.colors, 1, count)

\* generate_random_colors(): count = randint(1, 4)
generate_random_colors_default(draw) == generate_random_colors(draw.count, draw)

RandomWord == <<"r", "a", "n", "d", "o", "m">>

\* re.match(r'^random(\d)*$', s)
RandomMatch(s) ==
    /\ Len(s) >= 6
    /\ SubSeq(s, 1, 6) = RandomWord
    /\ \A i \in 7..Len(s) : s[i] \in Digits

\* match.group(1): the last repetition of the group, None when it never matched
HasGroup(s) == Len(s) > 6
Group1(s) == s[Len(s)]

\* lines 23-31 of huedesk_cli.py and 57-66 of huedesk_curses.py; the two differ
\* in what an out-of-range count raises
RandomColors(s, draw, out_of_range) ==
    IF ~HasGroup(s) THEN Returned(generate_random_colors_default(draw))
    ELSE LET colors_number == IntParse(<<Group1(s)>>).val
         IN  IF 1 <= colors_number /\ colors_number <= 4
             THEN Returned(generate_random_colors(colors_number, draw))
             ELSE Raised(out_of_range, "Invalid number of colors. Should be between 1 and 4")

\* the draws that matter to a colour string
DrawsFor(s) == IF RandomMatch(s) THEN RandomDraws ELSE {NoDraw}

-----------------------------------------------------------------------------
(* huedesk_cli.main_cli                                                    *)

\* width, height = map(int, args.dimensions.lower().split('x'))
ParseDimensions(dimensions) ==
    LET parts == Split(Lower(dimensions), "x")
        ints == [i \in 1..Len(parts) |-> IntParse(parts[i])]
    IN  IF Len(parts) = 2 /\ ints[1].ok /\ ints[2].ok
        THEN [ok |-> TRUE, width |-> ints[1].val, height |-> ints[2].val]
        ELSE [ok |-> FALSE, width |-> 0, height |-> 0]

\* how main_cli ended: the exception that left it ("none": it returned), the
\* diagnostic it printed, whether it printed the help text, what it saved, and
\* the value of its local 'colors' (<<>> when it was never bound)
CliEnd(e, printed, help, effect, colors) ==
    [exc |-> e, printed |-> printed, help |-> help, effect |-> effect,
     colors |-> colors]

\* lines 20-33: parser.error() prints the usage and exits the process
CliColors(c, draw) ==
    IF RandomMatch(c) THEN RandomColors(c, draw, "SystemExit") ELSE parse_color(c)

\* lines 35-39
CliCreate(width, height, colors, output_path, io_ok) ==
    IF Len(colors) = 1
    THEN create_solid_color_image(width, height, colors[1], output_path,
                                  "generate", io_ok)
    ELSE IF Len(colors) \in {2, 3, 4}
    THEN create_gradient_color_image(width, height, colors, output_path,
                                     "generate", io_ok)
    ELSE NoEffect

\* lines 40-46: the success message and the two except clauses
CliReport(effect, colors) ==
    IF effect.exc = "none" THEN CliEnd("none", "Success", FALSE, effect, colors)
    ELSE IF effect.exc = "ParserError"
    THEN CliEnd("none", "Cannot parse color", TRUE, effect, colors)
    ELSE IF effect.exc = "ImageGeneratorError"
    THEN CliEnd("none", "Cannot create image", TRUE, effect, colors)
    ELSE CliEnd(effect.exc, "", FALSE, effect, colors)

main_cli(a, draw, io_ok) ==
    LET dims == ParseDimensions(a.dimensions)
        colors == CliColors(a.color, draw)
    IN  IF ~dims.ok
        THEN CliReport(Effect("ValueError", "", "none", NoImage, <<>>), <<>>)
        ELSE IF colors.exc # "none"
        THEN CliReport(Effect(colors.exc, colors.msg, "none", NoImage, <<>>), <<>>)
        ELSE CliReport(CliCreate(dims.width, dims.height, colors.value,
                                 a.output, io_ok), colors.value)

-----------------------------------------------------------------------------
(* huedesk_curses.process_image                                            *)

\* what process_image wrote at the message row: the except clause that wrote
\* it ("success": none did), the exception it caught, what was saved or shown,
\* and the value of its local 'color' (<<>> when it was never bound)
Report(branch, caught, msg, effect, colors) ==
    [branch |-> branch, caught |-> caught, msg |-> msg, effect |-> effect,
     colors |-> colors]

Blank == Report("none", "none", "", NoEffect, <<>>)

\* lines 54-68
CursesColors(c, draw) ==
    IF RandomMatch(c) THEN RandomColors(c, draw, "HueDeskCursesError")
    ELSE parse_color(c)

\* lines 72-78
CursesCreate(width, height, colors, output_path, mode, io_ok) ==
    IF Len(colors) = 1
    THEN create_solid_color_image(width, height, colors[1], output_path, mode, io_ok)
    ELSE IF Len(colors) \in {2, 3, 4}
    THEN create_gradient_color_image(width, height, colors, output_path, mode, io_ok)
    ELSE Effect("HueDeskCursesError",
                "Invalid number of colors. Should be between 1 and 4",
                "none", NoImage, <<>>)

\* lines 88-96: which except clause takes the exception.  ParserError and
\* ImageGeneratorError derive from Exception only.
Handler(e) ==
    IF e = "none" THEN "success"
    ELSE IF e = "ValueError" THEN "except ValueError"
    ELSE IF e = "HueDeskCursesError" THEN "except HueDeskCursesError"
    ELSE "except Exception"

Message(e, msg, mode) ==
    IF e = "none"
    THEN IF mode = "generate" THEN "Success! Wallpaper saved"
         ELSE "Success! Wallpaper opened in scaled preview mode."
    ELSE IF e = "ValueError" THEN "Warning: Wrong parameters format."
    ELSE IF e = "HueDeskCursesError" THEN "Warning: " \o msg
    ELSE "Error: Can't create wallpaper. " \o msg

CursesReport(effect, mode, colors) ==
    Report(Handler(effect.exc), effect.exc,
           Message(effect.exc, effect.msg, mode), effect, colors)

process_image(values, mode, draw, io_ok) ==
    LET width == IntParse(values[1])
        height == IntParse(values[2])
        colors == CursesColors(values[3], draw)
    IN  IF ~width.ok \/ ~height.ok
        THEN CursesReport(Effect("ValueError", "", "none", NoImage, <<>>), mode, <<>>)
        ELSE IF width.val <= 1 \/ height.val <= 1
        THEN CursesReport(Effect("HueDeskCursesError",
                 "Invalid dimensions foramt. The values must be greater than 1",
                 "none", NoImage, <<>>), mode, <<>>)
        ELSE IF colors.exc # "none"
        THEN CursesReport(Effect(colors.exc, colors.msg, "none", NoImage, <<>>),
                          mode, <<>>)
        ELSE CursesReport(CursesCreate(width.val, height.val, colors.value,
                                       values[4], mode, io_ok), mode, colors.value)

-----------------------------------------------------------------------------
(* The inputs the model draws.                                             *)

\* the components an 'r,g,b' segment is built from: in range, out of range,
\* not an integer, and the spellings int() accepts
RGBComponents ==
    {<<"0">>,
     <<"7">>,
     <<"2", "5", "5">>,
     <<"2", "5", "6">>,
     <<"x">>,
     <<" ", "1", "2">>,
     <<"+", "5">>,
     <<"0", "0", "7">>,
     <<>>}

RGBSegments ==
    {Join(<<r, g, b>>, ",") : r, g, b \in RGBComponents}
        \cup {<<"#">> \o Join(<<r, g, g>>, ",") : r, g \in {<<"0">>, <<"2", "5", "5">>}}
        \cup {Join(<<r, g>>, ",") : r, g \in {<<"0">>, <<"2", "5", "5">>}}
        \cup {Join(<<r, g, b, b>>, ",") : r, g, b \in {<<"0">>, <<"2", "5", "5">>}}

HexSample == {"0", "9", "a", "f", "A", "F"}
Hex3 == {<<a, b, c>> : a, b, c \in HexSample}
Hex6 == {DoubleChars(h) : h \in Hex3}
           \cup {<<"1", "2", "a", "b", "9", "F">>, <<"f", "e", "0", "1", "8", "0">>}
HexSegments == Hex3 \cup Hex6 \cup {<<"#">> \o h : h \in Hex3 \cup Hex6}

\* segments that are neither
OddSegments ==
    {<<"1", "2", "3", "4", "5">>,
     <<"g", "g", "g">>,
     <<"+", "a", "b">>,
     <<"+", "a", "0", "0", "0", "0">>,
     <<" ", "a", "0", "0", "0", "0">>,
     <<"0", "x", "0", "x", "0", "x">>,
     <<>>,
     <<"#">>,
     <<"#", "#", "a", "b", "c">>,
     <<"a", "b", "c", "d">>,
     <<"a", " ", "b">>,
     <<"1", "_", "2", "_", "3", "_">>}

\* the segments multi-segment strings are joined from
CoreSegments ==
    {<<"2", "5", "5", ",", "0", ",", "0">>,
     <<"0", "0", "f">>,
     <<"#", "0", "F", "0", "f", "0", "f">>,
     <<"2", "5", "6", ",", "0", ",", "0">>}

SegmentLists(n) == [1..n -> CoreSegments]

RandomTokens ==
    {<<"r", "a", "n", "d", "o", "m">>,
     <<"r", "a", "n", "d", "o", "m", "0">>,
     <<"r", "a", "n", "d", "o", "m", "2">>,
     <<"r", "a", "n", "d", "o", "m", "5">>,
     <<"r", "a", "n", "d", "o", "m", "1", "2">>,
     <<"r", "a", "n", "d", "o", "m", "4", "0">>}

ColorStrings ==
    RGBSegments \cup HexSegments \cup OddSegments \cup RandomTokens
        \cup {Join(parts, "-") : parts \in UNION {SegmentLists(n) : n \in 2..MaxParts}}

\* the colour strings handed to the front ends
FrontEndColors ==
    {<<"f", "0", "0">>,
     <<"2", "5", "5", ",", "0", ",", "0", "-", "0", ",", "0", ",", "2", "5", "5">>,
     <<"f", "0", "0", "-", "0", "f", "0", "-", "0", "0", "f">>,
     <<"f", "0", "0", "-", "0", "f", "0", "-", "0", "0", "f", "-", "f", "f", "f">>,
     <<"0", "-", "0", "-", "0", "-", "0", "-", "0">>,
     <<"2", "5", "6", ",", "0", ",", "0">>,
     <<"1", "2", "3", "4", "5">>,
     <<"r", "a", "n", "d", "o", "m">>,
     <<"r", "a", "n", "d", "o", "m", "0">>,
     <<"r", "a", "n", "d", "o", "m", "2">>,
     <<"r", "a", "n", "d", "o", "m", "1", "3">>}

\* corner colours of the direct calls
ColorPool == {<<255, 0, 0>>, <<0, 0, 255>>, <<12, 200, 99>>}
\* the longest colour list handed to create_gradient_color_image
MaxColors == 5
ColorLists(n) == [1..n -> ColorPool]

Modes == {"generate", "preview", "thumbnail"}

\* corner colours whose half-way values need truncation at every step
StepLists == {<<<<1, 0, 255>>, <<0, 0, 0>>, <<3, 0, 0>>, <<0, 0, 1>>>>}

\* sizes around the preview threshold of 1000 pixels
PreviewSizes == {<<2000, 1001>>, <<1062, 531>>, <<1920, 1080>>, <<1920, 2>>,
                 <<1000, 600>>}

DigitChar(n) ==
    CASE n = 0 -> "0" [] n = 1 -> "1" [] n = 2 -> "2" [] n = 3 -> "3"
      [] n = 4 -> "4" [] n = 5 -> "5" [] n = 6 -> "6" [] n = 7 -> "7"
      [] n = 8 -> "8" [] n = 9 -> "9"

\* one side of a WIDTHxHEIGHT string
SideTokens == {<<DigitChar(n)>> : n \in 1..MaxDim} \cup {<<"a">>, <<"-", "1">>}

DefaultDimensions == <<"1", "9", "2", "0", "x", "1", "0", "8", "0">>
DefaultOutput == <<"w", "a", "l", "l", "p", "a", "p", "e", "r", ".", "p", "n", "g">>

DimensionStrings ==
    {Join(<<w, h>>, x) : w, h \in SideTokens, x \in {"x", "X"}}
        \cup {DefaultDimensions, <<"3">>, <<"3", "x", "3", "x", "3">>, <<>>}

-----------------------------------------------------------------------------
(* State.                                                                  *)

NotParsed == Raised("pending", "")
NoCall == [fn |-> "none", width |-> 0, height |-> 0, colors |-> <<>>, mode |-> ""]
Pending == Effect("pending", "", "none", NoImage, <<>>)
NoArgs == [dimensions |-> <<>>, color |-> <<>>, output |-> <<>>]
NotRun == CliEnd("pending", "", FALSE, NoEffect, <<>>)

\* lines 112-116 of huedesk_curses.py
menu_items == <<"Width (px)", "Height (px)", "Color (R,G,B or #HEX)",
                "Output path", "PREVIEW", "GENERATE", "EXIT">>
InitialValues == <<<<"1", "9", "2", "0">>, <<"1", "0", "8", "0">>, <<>>, DefaultOutput,
                   <<>>, <<>>, <<>>>>

InitParser ==
    /\ entry = "parse_color" /\ pc = "call"
    /\ color \in ColorStrings /\ parsed = NotParsed
    /\ call = NoCall /\ result = Pending
    /\ args = NoArgs /\ cli = NotRun
    /\ current_row = 0 /\ menu_values = InitialValues /\ screen = Blank

Call(fn, width, height, colors, mode) ==
    [fn |-> fn, width |-> width, height |-> height, colors |-> colors, mode |-> mode]

GeneratorCalls ==
    {Call("generate_2point_gradient", w, h, cl, "") :
        w \in 1..MaxDim, h \in 1..MaxDim, cl \in ColorLists(2)}
    \cup {Call("generate_3point_gradient", w, h, cl, "") :
        w \in 1..MaxDim, h \in 1..MaxDim, cl \in ColorLists(3)}
    \cup {Call("generate_4point_gradient", w, h, cl, "") :
        w \in 1..MaxDim, h \in 1..MaxDim, cl \in ColorLists(4) \cup StepLists}
    \cup {Call("create_solid_color_image", w, h, cl, m) :
        w \in 1..MaxDim, h \in 1..MaxDim, cl \in ColorLists(1), m \in Modes}
    \cup {Call("create_gradient_color_image", w, h, cl, m) :
        w \in 1..MaxDim, h \in 1..MaxDim,
        cl \in UNION {ColorLists(n) : n \in 0..MaxColors}, m \in Modes}
    \cup {Call("create_solid_color_image", sz[1], sz[2], cl, m) :
        sz \in PreviewSizes, cl \in ColorLists(1), m \in Modes}
    \cup {Call("create_gradient_color_image", sz[1], sz[2], cl, m) :
        sz \in PreviewSizes, cl \in UNION {ColorLists(n) : n \in 2..4},
        m \in {"generate", "preview"}}

InitGenerator ==
    /\ entry = "generator" /\ pc = "call"
    /\ color = <<>> /\ parsed = NotParsed
    /\ call \in GeneratorCalls /\ result = Pending
    /\ args = NoArgs /\ cli = NotRun
    /\ current_row = 0 /\ menu_values = InitialValues /\ screen = Blank

InitCli ==
    /\ entry = "cli" /\ pc = "call"
    /\ color = <<>> /\ parsed = NotParsed
    /\ call = NoCall /\ result = Pending
    /\ args \in [dimensions : DimensionStrings, color : FrontEndColors,
                 output : {DefaultOutput}]
    /\ cli = NotRun
    /\ current_row = 0 /\ menu_values = InitialValues /\ screen = Blank

InitCurses ==
    /\ entry = "curses" /\ pc = "menu"
    /\ color = <<>> /\ parsed = NotParsed
    /\ call = NoCall /\ result = Pending
    /\ args = NoArgs /\ cli = NotRun
    /\ current_row = 0 /\ menu_values = InitialValues /\ screen = Blank

Init == InitParser \/ InitGenerator \/ InitCli \/ InitCurses

-----------------------------------------------------------------------------
(* Single calls.                                                           *)

CallParseColor ==
    /\ entry = "parse_color" /\ pc = "call"
    /\ parsed' = parse_color(color)
    /\ pc' = "done"
    /\ UNCHANGED <<entry, color, call, result, args, cli,
                   current_row, menu_values, screen>>

\* a generate_*point_gradient call hands its image back to the caller
Handed(made) ==
    Effect(made.exc, ExcText(made.exc),
           IF made.exc = "none" THEN "return" ELSE "none", made.image, <<>>)

CallGenerate2 ==
    /\ entry = "generator" /\ pc = "call"
    /\ call.fn = "generate_2point_gradient"
    /\ result' = Handed(generate_2point_gradient(call.width, call.height, call.colors))
    /\ pc' = "done"
    /\ UNCHANGED <<entry, color, parsed, call, args, cli,
                   current_row, menu_values, screen>>

CallGenerate3 ==
    /\ entry = "generator" /\ pc = "call"
    /\ call.fn = "generate_3point_gradient"
    /\ result' = Handed(generate_3point_gradient(call.width, call.height, call.colors))
    /\ pc' = "done"
    /\ UNCHANGED <<entry, color, parsed, call, args, cli,
                   current_row, menu_values, screen>>

CallGenerate4 ==
    /\ entry = "generator" /\ pc = "call"
    /\ call.fn = "generate_4point_gradient"
    /\ result' = Handed(generate_4point_gradient(call.width, call.height, call.colors))
    /\ pc' = "done"
    /\ UNCHANGED <<entry, color, parsed, call, args, cli,
                   current_row, menu_values, screen>>

CallCreateSolid ==
    /\ entry = "generator" /\ pc = "call"
    /\ call.fn = "create_solid_color_image"
    /\ \E io_ok \in BOOLEAN :
          result' = create_solid_color_image(call.width, call.height, call.colors[1],
                                             DefaultOutput, call.mode, io_ok)
    /\ pc' = "done"
    /\ UNCHANGED <<entry, color, parsed, call, args, cli,
                   current_row, menu_values, screen>>

CallCreateGradient ==
    /\ entry = "generator" /\ pc = "call"
    /\ call.fn = "create_gradient_color_image"
    /\ \E io_ok \in BOOLEAN :
          result' = create_gradient_color_image(call.width, call.height, call.colors,
                                                DefaultOutput, call.mode, io_ok)
    /\ pc' = "done"
    /\ UNCHANGED <<entry, color, parsed, call, args, cli,
                   current_row, menu_values, screen>>

RunMainCli ==
    /\ entry = "cli" /\ pc = "call"
    /\ \E draw \in DrawsFor(args.color), io_ok \in BOOLEAN :
          cli' = main_cli(args, draw, io_ok)
    /\ pc' = "done"
    /\ UNCHANGED <<entry, color, parsed, call, result, args,
                   current_row, menu_values, screen>>

-----------------------------------------------------------------------------
(* huedesk_curses.main_curses: one action per key read at line 135          *)

Rows == Len(menu_items)
Item(row) == menu_items[row + 1]

KeyDown ==
    /\ entry = "curses" /\ pc = "menu"
    /\ current_row' = (current_row + 1) % Rows
    /\ UNCHANGED <<entry, pc, color, parsed, call, result, args, cli,
                   menu_values, screen>>

KeyUp ==
    /\ entry = "curses" /\ pc = "menu"
    /\ current_row' = (current_row - 1) % Rows
    /\ UNCHANGED <<entry, pc, color, parsed, call, result, args, cli,
                   menu_values, screen>>

\* any key that is neither an arrow nor Enter: the loop draws the menu again
OtherKey ==
    /\ entry = "curses" /\ pc = "menu"
    /\ UNCHANGED vars

\* Enter on GENERATE: process_image up to its stdscr.getch()
EnterGenerate ==
    /\ entry = "curses" /\ pc = "menu"
    /\ Item(current_row) = "GENERATE"
    /\ \E draw \in DrawsFor(menu_values[3]), io_ok \in BOOLEAN :
          screen' = process_image(menu_values, "generate", draw, io_ok)
    /\ pc' = "message"
    /\ UNCHANGED <<entry, color, parsed, call, result, args, cli,
                   current_row, menu_values>>

\* Enter on PREVIEW: process_image(mode='preview') up to its stdscr.getch()
EnterPreview ==
    /\ entry = "curses" /\ pc = "menu"
    /\ Item(current_row) = "PREVIEW"
    /\ \E draw \in DrawsFor(menu_values[3]), io_ok \in BOOLEAN :
          screen' = process_image(menu_values, "preview", draw, io_ok)
    /\ pc' = "message"
    /\ UNCHANGED <<entry, color, parsed, call, result, args, cli,
                   current_row, menu_values>>

\* the key process_image waits for at line 97; the loop then clears the screen
Dismiss ==
    /\ entry = "curses" /\ pc = "message"
    /\ screen' = Blank
    /\ pc' = "menu"
    /\ UNCHANGED <<entry, color, parsed, call, result, args, cli,
                   current_row, menu_values>>

EnterExit ==
    /\ entry = "curses" /\ pc = "menu"
    /\ Item(current_row) = "EXIT"
    /\ pc' = "exit"
    /\ UNCHANGED <<entry, color, parsed, call, result, args, cli,
                   current_row, menu_values, screen>>

\* a byte that is no UTF-8 text on its own: 0xff, or the first half of a
\* two-byte character cut off by getstr's limit of 50 bytes
InvalidBytes == {"\\xff"}

\* bytes.decode('utf-8')
Utf8Decode(bytes) ==
    IF \E i \in 1..Len(bytes) : bytes[i] \in InvalidBytes
    THEN [ok |-> FALSE, text |-> <<>>]
    ELSE [ok |-> TRUE, text |-> bytes]

\* the bytes stdscr.getstr returns at each parameter row (line 168)
Typed(row) ==
    {<<" ">>, <<"\\xff">>} \cup
    CASE row = 0 -> {<<>>,
                  <<"1">>,
                  <<" ", "3", " ">>,
                  <<"x">>}
      [] row = 1 -> {<<>>,
                  <<"1">>,
                  <<"2">>,
                  <<"x">>}
      [] row = 2 -> FrontEndColors \cup {<<>>}
      [] row = 3 -> {<<>>, <<"o", "u", "t", ".", "p", "n", "g">>}

\* lines 168-172: the exception that left edit_parameter and the menu values
\* it leaves behind
edit_parameter(values, row, bytes) ==
    LET decoded == Utf8Decode(bytes)
        value == Strip(decoded.text)
    IN  IF ~decoded.ok THEN [exc |-> "UnicodeDecodeError", values |-> values]
        ELSE IF value # <<>>
        THEN [exc |-> "none", values |-> [values EXCEPT ![row + 1] = value]]
        ELSE [exc |-> "none", values |-> values]

\* Enter on a parameter row; an exception of edit_parameter leaves main_curses
EnterParameter ==
    /\ entry = "curses" /\ pc = "menu"
    /\ Item(current_row) \notin {"GENERATE", "PREVIEW", "EXIT"}
    /\ \E bytes \in Typed(current_row) :
          LET edited == edit_parameter(menu_values, current_row, bytes)
          IN  /\ menu_values' = edited.values
              /\ pc' = IF edited.exc = "none" THEN "menu" ELSE "crash"
              /\ screen' = IF edited.exc = "none" THEN screen
                            ELSE Report("uncaught", edited.exc, "", NoEffect, <<>>)
    /\ UNCHANGED <<entry, color, parsed, call, result, args, cli, current_row>>

-----------------------------------------------------------------------------
(* Specifications, one per entry point.                                    *)

NextParser == CallParseColor
NextGenerator ==
    \/ CallGenerate2 \/ CallGenerate3 \/ CallGenerate4
    \/ CallCreateSolid \/ CallCreateGradient
NextCli == RunMainCli
NextCurses ==
    \/ KeyDown \/ KeyUp \/ OtherKey
    \/ EnterGenerate \/ EnterPreview \/ EnterExit \/ EnterParameter
    \/ Dismiss

Next == NextParser \/ NextGenerator \/ NextCli \/ NextCurses

SpecParser == InitParser /\ [][NextParser]_vars
SpecGenerator == InitGenerator /\ [][NextGenerator]_vars
SpecCli == InitCli /\ [][NextCli]_vars
SpecCurses == InitCurses /\ [][NextCurses]_vars
SpecFrontEnds == (InitCli \/ InitCurses) /\ [][NextCli \/ NextCurses]_vars
Spec == Init /\ [][Next]_vars

-----------------------------------------------------------------------------
(* Properties.                                                             *)

\* every pixel of the raster has the colour c
AllPixels(image, c) ==
    \A p \in Pixels(image.size[1], image.size[2]) : Pixel(image, p[1], p[2]) = c

\* C1: create_gradient_color_image called with a colour list whose length is
\* not 2, 3 or 4 raises ImageGeneratorError and neither saves nor shows an image.
C1_InvalidCountRejected ==
    (/\ entry = "generator" /\ pc = "done"
     /\ call.fn = "create_gradient_color_image"
     /\ Len(call.colors) \notin {2, 3, 4})
        => (result.exc = "ImageGeneratorError" /\ result.sink = "none")

\* the dimensions and the colour list a front end was asked for
CliDims == ParseDimensions(args.dimensions)
CliAsked == IF RandomMatch(args.color) THEN Raised("random", "") ELSE parse_color(args.color)
MenuWidth == IntParse(menu_values[1])
MenuHeight == IntParse(menu_values[2])
MenuAsked ==
    IF RandomMatch(menu_values[3]) THEN Raised("random", "")
    ELSE parse_color(menu_values[3])

\* C2: a request with width = 1 or height = 1 and 3 or 4 colours is rejected
\* with a typed, reported error; ZeroDivisionError is never raised, on the
\* one-shot path and on the interactive path.
C2_DegenerateRejected ==
    /\ (/\ entry = "cli" /\ pc = "done"
        /\ CliDims.ok /\ (CliDims.width = 1 \/ CliDims.height = 1)
        /\ CliAsked.exc = "none" /\ Len(CliAsked.value) \in {3, 4})
           => (/\ cli.exc = "none"
               /\ cli.printed \in {"Cannot parse color", "Cannot create image"}
               /\ cli.effect.sink = "none")
    /\ (/\ entry = "curses" /\ pc = "message"
        /\ MenuWidth.ok /\ MenuHeight.ok
        /\ (MenuWidth.val = 1 \/ MenuHeight.val = 1)
        /\ MenuAsked.exc = "none" /\ Len(MenuAsked.value) \in {3, 4})
           => (/\ screen.branch \in {"except ValueError", "except HueDeskCursesError"}
               /\ screen.effect.sink = "none")

\* C3: main_cli returns normally whatever its arguments: every failure is
\* caught inside it and answered with a diagnostic and the help text.
C3_CliAlwaysReturns ==
    (entry = "cli" /\ pc = "done")
        => (/\ cli.exc = "none"
            /\ (cli.printed # "Success" => (cli.printed # "" /\ cli.help)))

\* C4: in process_image a ParserError and an ImageGeneratorError are reported
\* by a typed 'Warning:' clause, never by the generic 'Error: Can't create
\* wallpaper' clause.
C4_TypedErrorsTypedClause ==
    (/\ entry = "curses" /\ pc = "message"
     /\ screen.caught \in {"ParserError", "ImageGeneratorError"})
        => screen.branch # "except Exception"

\* C5: for width > 1 and height > 1 the four corners of the image of
\* generate_4point_gradient are colors[0], colors[1], colors[2], colors[3].
C5_FourPointCorners ==
    (/\ entry = "generator" /\ pc = "done"
     /\ call.fn = "generate_4point_gradient"
     /\ call.width > 1 /\ call.height > 1)
        => (/\ result.exc = "none"
            /\ result.image.size = <<call.width, call.height>>
            /\ Pixel(result.image, 0, 0) = call.colors[1]
            /\ Pixel(result.image, call.width - 1, 0) = call.colors[2]
            /\ Pixel(result.image, 0, call.height - 1) = call.colors[3]
            /\ Pixel(result.image, call.width - 1, call.height - 1) = call.colors[4])

C5_Witness ==
    /\ entry = "generator" /\ pc = "done"
    /\ call.fn = "generate_4point_gradient"
    /\ call.width = MaxDim /\ call.height = 2
    /\ Cardinality({call.colors[i] : i \in 1..4}) = 3
    /\ call.colors[2] # call.colors[3]
    /\ result.exc = "none"

\* C6: for width + height > 2 the image of generate_2point_gradient has
\* colors[0] at (0, 0) and colors[1] at (width-1, height-1).
C6_TwoPointCorners ==
    (/\ entry = "generator" /\ pc = "done"
     /\ call.fn = "generate_2point_gradient"
     /\ call.width >= 1 /\ call.height >= 1 /\ call.width + call.height > 2)
        => (/\ result.exc = "none"
            /\ result.image.size = <<call.width, call.height>>
            /\ Pixel(result.image, 0, 0) = call.colors[1]
            /\ Pixel(result.image, call.width - 1, call.height - 1) = call.colors[2])

C6_Witness ==
    /\ entry = "generator" /\ pc = "done"
    /\ call.fn = "generate_2point_gradient"
    /\ call.width = 1 /\ call.height = MaxDim
    /\ call.colors[1] # call.colors[2]
    /\ result.exc = "none"

\* C7: when the resolved colour list holds one colour C and the dimensions
\* are valid, both front ends produce a raster every pixel of which is C.
C7_SolidFill ==
    /\ (/\ entry = "cli" /\ pc = "done"
        /\ Len(cli.colors) = 1 /\ CliDims.width > 1 /\ CliDims.height > 1)
           => (/\ cli.exc \in {"none", "OSError"}
               /\ cli.exc = "none"
                    => (/\ cli.effect.sink = "save"
                        /\ cli.effect.image.size = <<CliDims.width, CliDims.height>>
                        /\ AllPixels(cli.effect.image, cli.colors[1])))
    /\ (/\ entry = "curses" /\ pc = "message" /\ Len(screen.colors) = 1)
           => (/\ screen.caught \in {"none", "OSError"}
               /\ screen.caught = "none"
                    => (/\ screen.effect.sink \in {"save", "show"}
                        /\ screen.effect.image.size[1] > 0
                        /\ screen.effect.image.size[2] > 0
                        /\ AllPixels(screen.effect.image, screen.colors[1])))

C7_Witness ==
    /\ entry = "curses" /\ pc = "message"
    /\ Len(screen.colors) = 1
    /\ screen.effect.sink = "show"
    /\ screen.effect.image.size[1] = 3

RECURSIVE PlaceValue(_, _)
\* the number a string of digits denotes in a base
PlaceValue(s, base) ==
    IF Len(s) = 0 THEN 0
    ELSE PlaceValue(SubSeq(s, 1, Len(s) - 1), base) * base + DigitVal(s[Len(s)])

DecimalText(s) == Len(s) > 0 /\ \A i \in 1..Len(s) : s[i] \in Digits
HexText(s) == \A i \in 1..Len(s) : s[i] \in HexDigits
Unhashed(s) == IF Len(s) > 0 /\ s[1] = "#" THEN Tail(s) ELSE s

\* a segment of the grammar: 'r,g,b' with r, g, b in 0..255, or 3 or 6 hex
\* digits after an optional '#'
RGBText(seg) ==
    LET parts == Split(seg, ",")
    IN  /\ Len(parts) = 3
        /\ \A i \in 1..3 : DecimalText(parts[i]) /\ PlaceValue(parts[i], 10) <= 255
HexColorText(seg) == Len(Unhashed(seg)) \in {3, 6} /\ HexText(Unhashed(seg))

\* the colour a segment of the grammar denotes
SegmentColor(seg) ==
    IF RGBText(seg)
    THEN [i \in 1..3 |-> PlaceValue(Split(seg, ",")[i], 10)]
    ELSE LET h == Unhashed(seg)
         IN  IF Len(h) = 3 THEN [i \in 1..3 |-> 17 * DigitVal(h[i])]
             ELSE [i \in 1..3 |-> 16 * DigitVal(h[2 * i - 1]) + DigitVal(h[2 * i])]

\* C8: a colour string of 1 to 4 segments of the grammar parses to the list
\* of the colours its segments denote, in the order of the segments.
C8_ParsesInOrder ==
    (entry = "parse_color" /\ pc = "done")
        => LET parts == Split(color, "-")
           IN  (/\ Len(parts) \in 1..4
                /\ \A i \in 1..Len(parts) : RGBText(parts[i]) \/ HexColorText(parts[i]))
                  => (/\ parsed.exc = "none"
                      /\ Len(parsed.value) = Len(parts)
                      /\ \A i \in 1..Len(parts) : parsed.value[i] = SegmentColor(parts[i]))

C8_Witness ==
    /\ entry = "parse_color" /\ pc = "done"
    /\ Len(Split(color, "-")) = 4
    /\ RGBText(Split(color, "-")[1])
    /\ HexColorText(Split(color, "-")[2])
    /\ HexColorText(Split(color, "-")[3])
    /\ RGBText(Split(color, "-")[4])
    /\ Split(color, "-")[2] # Split(color, "-")[3]
    /\ parsed.exc = "none"

\* an 'r,g,b' segment that is not three integers of 0..255; an integer is read
\* as int() reads it
BadRGBText(seg) ==
    LET parts == Split(seg, ",")
    IN  \/ Len(parts) # 3
        \/ \E i \in 1..Len(parts) :
              \/ ~IntParse(parts[i]).ok
              \/ IntParse(parts[i]).val < 0
              \/ IntParse(parts[i]).val > 255

\* C9: a colour string with a segment that contains a comma and is not three
\* integers of 0..255 makes parse_color raise ParserError.
C9_BadRGBRaises ==
    (entry = "parse_color" /\ pc = "done")
        => LET parts == Split(color, "-")
           IN  (\E i \in 1..Len(parts) : Contains(parts[i], ",") /\ BadRGBText(parts[i]))
                  => parsed.exc = "ParserError"

\* 'abc' -> 'aabbcc', an optional '#' kept
Expanded(seg) ==
    LET h == Unhashed(seg)
    IN  IF Len(seg) > 0 /\ seg[1] = "#"
        THEN <<"#", h[1], h[1], h[2], h[2], h[3], h[3]>>
        ELSE <<h[1], h[1], h[2], h[2], h[3], h[3]>>

\* C10: a segment of three hex digits, with or without '#', parses to the
\* colour its expansion 'aabbcc' parses to.
C10_ShortHexExpands ==
    (/\ entry = "parse_color" /\ pc = "done"
     /\ Len(Unhashed(color)) = 3 /\ HexText(Unhashed(color)))
        => (/\ parsed.exc = "none"
            /\ parsed = parse_color(Expanded(color))
            /\ parsed = parse_color(Unhashed(Expanded(color))))

C10_Witness ==
    /\ entry = "parse_color" /\ pc = "done"
    /\ color = <<"#", "a", "9", "F">>
    /\ parsed.exc = "none"
    /\ parsed.value = <<<<170, 153, 255>>>>

\* a comma-free segment that is not 3 or 6 hex digits once its leading '#'
\* are removed
BadHexText(seg) ==
    LET h == LStrip(seg, "#")
    IN  ~Contains(seg, ",") /\ (Len(h) \notin {3, 6} \/ ~HexText(h))

\* C11: a colour string with a comma-free segment that, without its '#'
\* prefix, is not 3 or 6 characters long or holds a character that is not a
\* hex digit (a sign, a blank) makes parse_color raise ParserError.
C11_BadHexRaises ==
    (entry = "parse_color" /\ pc = "done")
        => LET parts == Split(color, "-")
           IN  (\E i \in 1..Len(parts) : BadHexText(parts[i]))
                  => parsed.exc = "ParserError"

CountMessage == "Invalid color format. Invalid number of colors. "
                    \o "Should be between 1 and 4."

\* C12: a colour string of more than 4 segments makes parse_color raise the
\* ParserError of the segment count, whatever the segments are and before any
\* of them is parsed; a list parse_color returns holds 1 to 4 colours.
C12_SegmentCountChecked ==
    (entry = "parse_color" /\ pc = "done")
        => /\ Len(Split(color, "-")) > 4
                => (/\ parsed.exc = "ParserError"
                    /\ parsed.msg = CountMessage
                    /\ parsed.value = <<>>)
           /\ parsed.exc = "none" => Len(parsed.value) \in 1..4

C12_Witness ==
    /\ entry = "parse_color" /\ pc = "done"
    /\ Len(Split(color, "-")) = 5
    /\ \A i \in 1..5 : RGBText(Split(color, "-")[i]) \/ HexColorText(Split(color, "-")[i])
    /\ parsed.exc = "ParserError"

\* the decimal count written after 'random'
RandomCount(s) == PlaceValue(Drop(s, 7), 10)

\* C13: a colour 'random<count>' with an explicit count outside 1..4 fails
\* and generates no colours; a count of 1..4 gives a list of that many colours.
C13_RandomCountChecked ==
    /\ (/\ entry = "cli" /\ pc = "done" /\ CliDims.ok
        /\ RandomMatch(args.color) /\ HasGroup(args.color))
           => IF RandomCount(args.color) \in 1..4
              THEN Len(cli.colors) = RandomCount(args.color)
              ELSE /\ cli.colors = <<>>
                   /\ cli.printed # "Success"
                   /\ cli.effect.sink = "none"
    /\ (/\ entry = "curses" /\ pc = "message"
        /\ MenuWidth.ok /\ MenuHeight.ok /\ MenuWidth.val > 1 /\ MenuHeight.val > 1
        /\ RandomMatch(menu_values[3]) /\ HasGroup(menu_values[3]))
           => IF RandomCount(menu_values[3]) \in 1..4
              THEN Len(screen.colors) = RandomCount(menu_values[3])
              ELSE /\ screen.colors = <<>>
                   /\ screen.branch # "success"
                   /\ screen.effect.sink = "none"

\* the raster size the preview policy is said to give
ClaimedSize(width, height, mode) ==
    IF mode = "preview" /\ width > 1000
    THEN <<1000, (height * 1000) \div width>>
    ELSE <<width, height>>

\* C14: the raster create_solid_color_image and create_gradient_color_image
\* compute is (1000, floor(height * 1000 / width)) in preview mode with
\* width > 1000, and (width, height) otherwise.
C14_PreviewSize ==
    (/\ entry = "generator" /\ pc = "done"
     /\ call.fn \in {"create_solid_color_image", "create_gradient_color_image"}
     /\ call.mode \in {"generate", "preview"}
     /\ call.fn = "create_gradient_color_image" => Len(call.colors) \in {2, 3, 4}
     /\ result.exc = "none")
        => result.image.size = ClaimedSize(call.width, call.height, call.mode)

\* one interpolation step on integers: a plus the floor of num * (b - a) / den
Step(a, b, num, den) == a + ((num * (b - a)) \div den)

\* the bilinear expression of the four corners, truncated once
Bilinear(colors, c, x, y, width, height) ==
    (colors[1][c] * (width - 1 - x) * (height - 1 - y)
        + colors[2][c] * x * (height - 1 - y)
        + colors[3][c] * (width - 1 - x) * y
        + colors[4][c] * x * y) \div ((width - 1) * (height - 1))

\* C15: each channel of each pixel of generate_4point_gradient is the
\* truncated vertical step between the truncated horizontal step along the
\* top edge and the truncated horizontal step along the bottom edge.
C15_StepwiseTruncation ==
    (/\ entry = "generator" /\ pc = "done"
     /\ call.fn = "generate_4point_gradient"
     /\ call.width > 1 /\ call.height > 1)
        => /\ result.exc = "none"
           /\ \A p \in Pixels(call.width, call.height), c \in 1..3 :
                 LET top == Step(call.colors[1][c], call.colors[2][c],
                                 p[1], call.width - 1)
                     bottom == Step(call.colors[3][c], call.colors[4][c],
                                    p[1], call.width - 1)
                 IN  Pixel(result.image, p[1], p[2])[c]
                         = Step(top, bottom, p[2], call.height - 1)

C15_Witness ==
    /\ entry = "generator" /\ pc = "done"
    /\ call.fn = "generate_4point_gradient"
    /\ call.width = 3 /\ call.height = 3
    /\ result.exc = "none"
    /\ \E c \in 1..3 :
          Pixel(result.image, 1, 1)[c] # Bilinear(call.colors, c, 1, 1, 3, 3)

\* C16: each channel of generate_2point_gradient is weakly monotone in x + y,
\* rising when colors[0] <= colors[1] in that channel and falling otherwise;
\* pixels of equal x + y are equal.
C16_TwoPointMonotone ==
    (/\ entry = "generator" /\ pc = "done"
     /\ call.fn = "generate_2point_gradient"
     /\ result.exc = "none")
        => \A p, q \in Pixels(call.width, call.height), c \in 1..3 :
              (p[1] + p[2] <= q[1] + q[2])
                 => IF call.colors[1][c] <= call.colors[2][c]
                    THEN Pixel(result.image, p[1], p[2])[c]
                            <= Pixel(result.image, q[1], q[2])[c]
                    ELSE Pixel(result.image, p[1], p[2])[c]
                            >= Pixel(result.image, q[1], q[2])[c]

C16_Witness ==
    /\ entry = "generator" /\ pc = "done"
    /\ call.fn = "generate_2point_gradient"
    /\ call.width = 3 /\ call.height = 3
    /\ result.exc = "none"
    /\ Pixel(result.image, 0, 2) = Pixel(result.image, 2, 0)
    /\ Pixel(result.image, 1, 1)[1] < Pixel(result.image, 0, 0)[1]
    /\ Pixel(result.image, 1, 1)[3] > Pixel(result.image, 0, 0)[3]

C18_ChannelsInRange ==
    (/\ entry = "generator" /\ pc = "done"
     /\ call.fn \in {"generate_2point_gradient", "generate_3point_gradient",
                     "generate_4point_gradient"}
     /\ call.width > 1 /\ call.height > 1)
        => /\ result.exc = "none"
           /\ result.image.size = <<call.width, call.height>>
           /\ Pixels(call.width, call.height)
                 = {<<x, y>> : x \in 0..(call.width - 1), y \in 0..(call.height - 1)}
           /\ Cardinality(Pixels(call.width, call.height)) = call.width * call.height
           /\ \A p \in Pixels(call.width, call.height), c \in 1..3 :
                 /\ Pixel(result.image, p[1], p[2])[c] \in 0..255
                 /\ call.fn # "generate_2point_gradient"
                       => Lerp(call.colors[1][c], call.colors[2][c],
                               p[1], call.width - 1) \in 0..255
                 /\ call.fn = "generate_3point_gradient"
                       => Lerp(call.colors[1][c], call.colors[3][c],
                               p[2], call.height - 1) \in 0..255
                 /\ call.fn = "generate_4point_gradient"
                       => Lerp(call.colors[3][c], call.colors[4][c],
                               p[1], call.width - 1) \in 0..255

C18_Witness ==
    /\ entry = "generator" /\ pc = "done"
    /\ call.fn = "generate_3point_gradient"
    /\ call.width = 3 /\ call.height = 3
    /\ result.exc = "none"
    /\ \A c \in 1..3 : Pixel(result.image, 1, 1)[c] \in 1..254

\* C19: a request with width > 1 and height > 1 and 2, 3 or 4 colours reaches
\* the gradient functions with both sides of the raster > 1, in generate and
\* in preview mode: no denominator is zero and the raster is not empty.
C19_ScalingKeepsValid ==
    /\ (/\ entry = "generator" /\ pc = "done"
        /\ call.fn = "create_gradient_color_image"
        /\ call.mode \in {"generate", "preview"}
        /\ call.width > 1 /\ call.height > 1
        /\ Len(call.colors) \in {2, 3, 4})
           => (/\ result.exc # "ZeroDivisionError"
               /\ result.exc = "none"
                    => (result.image.size[1] > 1 /\ result.image.size[2] > 1))
    /\ (/\ entry = "curses" /\ pc = "message"
        /\ MenuWidth.ok /\ MenuHeight.ok /\ MenuWidth.val > 1 /\ MenuHeight.val > 1
        /\ MenuAsked.exc = "none" /\ Len(MenuAsked.value) \in {2, 3, 4})
           => (/\ screen.caught # "ZeroDivisionError"
               /\ screen.caught = "none"
                    => (/\ screen.effect.image.size[1] > 1
                        /\ screen.effect.image.size[2] > 1))

\* one step of the menu loop as C20 describes it
MenuStep ==
    /\ current_row \in 0..6 /\ current_row' \in 0..6
    /\ current_row' # current_row
          => /\ current_row' \in {(current_row + 1) % 7, (current_row - 1) % 7}
             /\ menu_values' = menu_values /\ pc' = pc
    /\ pc' = "message"
          => /\ pc = "menu" /\ Item(current_row) \in {"PREVIEW", "GENERATE"}
             /\ menu_values' = menu_values /\ current_row' = current_row
    /\ pc = "message"
          => /\ pc' = "menu"
             /\ menu_values' = menu_values /\ current_row' = current_row
    /\ menu_values' # menu_values
          => /\ pc = "menu" /\ pc' = "menu" /\ current_row \in 0..3
             /\ \A i \in 1..7 : i # current_row + 1 => menu_values'[i] = menu_values[i]
             /\ menu_values'[current_row + 1] # <<>>
    /\ pc' \notin {"menu", "message"}
          => /\ pc = "menu" /\ Item(current_row) = "EXIT" /\ pc' = "exit"

\* C20: in the menu loop the selected row stays in 0..6 and moves by one
\* modulo 7; Enter on PREVIEW or GENERATE comes back to the menu with the
\* values and the row unchanged; Enter on a parameter row changes at most
\* that row's value; the loop ends only by Enter on EXIT.
C20_MenuLoop == [][entry = "curses" => MenuStep]_vars

=============================================================================
